---- MODULE Spec2Model ----
(***************************************************************************)
(* Adaptive weighted character selection (kana-dojo).                      *)
(*                                                                         *)
(* The selector created by createAdaptiveSelector owns a Map from a        *)
(* character to its CharacterWeight record.  Real numbers are modelled in  *)
(* fixed point: a real v is the integer v * Scale, truncated.  Times are   *)
(* milliseconds since the start of the session, as read from Date.now().   *)
(***************************************************************************)
EXTENDS Integers, Sequences, FiniteSets, TLC

VARIABLES
    characterWeights,  \* instance id -> the instance's Map<string, CharacterWeight>
    created,           \* number of instances createAdaptiveSelector has made
    globalSelector,    \* 0 (null) or the id of the process-wide instance
    now,               \* what Date.now() returns
    call,              \* the operation that ran last, with its arguments
    returned,          \* <<>> (void / undefined) or <<value>>: what it returned
    lastWrongAt,       \* history: instance id -> character -> time of its last wrong answer
    budget             \* operations still allowed in this run

vars == <<characterWeights, created, globalSelector, now, call, returned, lastWrongAt, budget>>

----------------------------------------------------------------------------
(* Bounds of the model *)

MaxOps == 5
MaxSelectOps == 2
MaxIsoOps == 4
MaxAttempts == 8
MaxSelectors == 2
MaxPool == 2

(* Fixed-point precision: 1.0 is Scale *)
Scale == 10 ^ 4

Items == {"", "a", "b"}

----------------------------------------------------------------------------
(* Program constants *)

MissWindowMs == 120000
FullBoostSec == 30
DecaySec == 120
DecaySpanSec == 90
FreshSec == 5
MsPerSec == 1000
LargePool == 20
MasteryStreak == 3
MasteryCap == 5
SigmoidSteepness == 6

Half == Scale \div 2                    \* 0.5
AccuracyScale == (25 * Scale) \div 10   \* 2.5
MissBoost == Scale \div 2               \* 0.5
StreakStep == (2 * Scale) \div 10       \* 0.2
MasteryStep == (15 * Scale) \div 100    \* 0.15
MasteryFloor == (15 * Scale) \div 100   \* 0.15
FreshFactor == (3 * Scale) \div 10      \* 0.3
MinWeight == Scale \div 10              \* 0.1
MaxWeight == 5 * Scale                  \* 5.0
FocusedBase == (9 * Scale) \div 10      \* 0.9
FocusedSpan == Scale \div 10            \* 0.1
ExploreBase == (8 * Scale) \div 10      \* 0.8
ExploreSpan == (2 * Scale) \div 10      \* 0.2
UnseenWeight == Scale                   \* 1.0

----------------------------------------------------------------------------
(* Fixed-point arithmetic *)

Min(a, b) == IF a <= b THEN a ELSE b
Max(a, b) == IF a >= b THEN a ELSE b

Mul(a, b) == (a * b) \div Scale

\* Taylor series of e^x for x >= 0, summed until the term vanishes
RECURSIVE ExpSeries(_, _, _)
ExpSeries(x, k, term) ==
    IF term = 0 THEN 0
    ELSE term + ExpSeries(x, k + 1, (term * x) \div ((k + 1) * Scale))

\* Math.exp
Exp(x) ==
    IF x >= 0 THEN ExpSeries(x, 0, Scale)
    ELSE (Scale * Scale) \div ExpSeries(-x, 0, Scale)

\* floor of the square root of n, by bisection on [lo, hi)
RECURSIVE ISqrt(_, _, _)
ISqrt(n, lo, hi) ==
    IF hi - lo <= 1 THEN lo
    ELSE LET mid == (lo + hi) \div 2
         IN  IF mid * mid <= n THEN ISqrt(n, mid, hi) ELSE ISqrt(n, lo, mid)

\* Math.sqrt of a non-negative integer, in fixed point
Sqrt(n) == ISqrt(n * Scale * Scale, 0, Min(n * Scale, 46340) + 1)

\* sigmoid(x, steepness, midpoint) = 1 / (1 + exp(-steepness * (x - midpoint)))
sigmoid(x, steepness, midpoint) ==
    (Scale * Scale) \div (Scale + Exp(-steepness * (x - midpoint)))

----------------------------------------------------------------------------
(* The Map<string, CharacterWeight> of one instance: a function whose      *)
(* domain is the set of tracked characters                                 *)

EmptyMap == <<>>

MapHas(m, char) == char \in DOMAIN m

MapSet(m, char, rec) ==
    [c \in (DOMAIN m) \cup {char} |-> IF c = char THEN rec ELSE m[c]]

\* characterWeights.get(char): <<>> is undefined
MapGet(m, char) == IF MapHas(m, char) THEN <<m[char]>> ELSE <<>>

\* the record set for a character that has none, by updateCharacterWeight
NewAnswerRecord(isCorrect, t) ==
    [correct            |-> IF isCorrect THEN 1 ELSE 0,
     wrong              |-> IF isCorrect THEN 0 ELSE 1,
     recentMisses       |-> IF isCorrect THEN <<>> ELSE <<t>>,
     lastSeen           |-> t,
     consecutiveCorrect |-> IF isCorrect THEN 1 ELSE 0,
     consecutiveWrong   |-> IF isCorrect THEN 0 ELSE 1]

\* the filter left out: no miss is ever dropped
KeepAll(misses, t) == misses

\* the filter with the window's end taken in: t - m <= 120000
KeepRecentInclusive(misses, t) == SelectSeq(misses, LAMBDA m : t - m <= MissWindowMs)

\* existing.recentMisses.filter(t => now - t < 120000)
KeepRecent(misses, t) == SelectSeq(misses, LAMBDA m : t - m < MissWindowMs)

\* the update with the opposite streak left as it was
AnswerExistingKeepStreaks(existing, isCorrect, t) ==
    IF isCorrect
    THEN [existing EXCEPT !.correct = @ + 1,
                          !.consecutiveCorrect = @ + 1,
                          !.lastSeen = t]
    ELSE [existing EXCEPT !.wrong = @ + 1,
                          !.consecutiveWrong = @ + 1,
                          !.recentMisses = SelectSeq(Append(@, t), LAMBDA m : t - m < MissWindowMs),
                          !.lastSeen = t]

\* the update with lastSeen set in the correct branch only
AnswerExistingStaleSeen(existing, isCorrect, t) ==
    IF isCorrect
    THEN [existing EXCEPT !.correct = @ + 1,
                          !.consecutiveCorrect = @ + 1,
                          !.consecutiveWrong = 0,
                          !.lastSeen = t]
    ELSE [existing EXCEPT !.wrong = @ + 1,
                          !.consecutiveWrong = @ + 1,
                          !.consecutiveCorrect = 0,
                          !.recentMisses = SelectSeq(Append(@, t), LAMBDA m : t - m < MissWindowMs)]

\* the update with a wrong answer zeroing correct in place of consecutiveCorrect
AnswerExistingZeroesCorrect(existing, isCorrect, t) ==
    IF isCorrect
    THEN [existing EXCEPT !.correct = @ + 1,
                          !.consecutiveCorrect = @ + 1,
                          !.consecutiveWrong = 0,
                          !.lastSeen = t]
    ELSE [existing EXCEPT !.wrong = @ + 1,
                          !.consecutiveWrong = @ + 1,
                          !.correct = 0,
                          !.recentMisses = SelectSeq(Append(@, t), LAMBDA m : t - m < MissWindowMs),
                          !.lastSeen = t]

\* the update with a miss put at the front of recentMisses
AnswerExistingPrepends(existing, isCorrect, t) ==
    IF isCorrect
    THEN [existing EXCEPT !.correct = @ + 1,
                          !.consecutiveCorrect = @ + 1,
                          !.consecutiveWrong = 0,
                          !.lastSeen = t]
    ELSE [existing EXCEPT !.wrong = @ + 1,
                          !.consecutiveWrong = @ + 1,
                          !.consecutiveCorrect = 0,
                          !.recentMisses = KeepRecent(<<t>> \o @, t),
                          !.lastSeen = t]

\* the in-place update of an existing record, by updateCharacterWeight
AnswerExisting(existing, isCorrect, t) ==
    IF isCorrect
    THEN [existing EXCEPT !.correct = @ + 1,
                          !.consecutiveCorrect = @ + 1,
                          !.consecutiveWrong = 0,
                          !.lastSeen = t]
    ELSE [existing EXCEPT !.wrong = @ + 1,
                          !.consecutiveWrong = @ + 1,
                          !.consecutiveCorrect = 0,
                          !.recentMisses = KeepRecent(Append(@, t), t),
                          !.lastSeen = t]

\* updateCharacterWeight putting the record of a new character into a new Map
AnswerMapFresh(m, char, isCorrect, t) ==
    IF ~MapHas(m, char)
    THEN MapSet(EmptyMap, char, NewAnswerRecord(isCorrect, t))
    ELSE MapSet(m, char, AnswerExisting(m[char], isCorrect, t))

\* the Map after updateCharacterWeight(char, isCorrect) at time t
AnswerMap(m, char, isCorrect, t) ==
    IF ~MapHas(m, char)
    THEN MapSet(m, char, NewAnswerRecord(isCorrect, t))
    ELSE MapSet(m, char, AnswerExisting(m[char], isCorrect, t))

\* the record set for a character that has none, by markCharacterSeen
NewSeenRecord(t) ==
    [correct |-> 0, wrong |-> 0, recentMisses |-> <<>>, lastSeen |-> t,
     consecutiveCorrect |-> 0, consecutiveWrong |-> 0]

\* the Map after markCharacterSeen(char) at time t
\* markCharacterSeen writing a fresh record over the existing one
SeenMapAlwaysNew(m, char, t) == MapSet(m, char, NewSeenRecord(t))

SeenMap(m, char, t) ==
    IF MapHas(m, char)
    THEN MapSet(m, char, [m[char] EXCEPT !.lastSeen = t])
    ELSE MapSet(m, char, NewSeenRecord(t))

\* reset() that clears nothing
KeptMap(m) == m

\* the Map after reset(): characterWeights.clear()
ClearedMap(m) == EmptyMap

----------------------------------------------------------------------------
(* calculateWeight *)

\* the accuracy factor with the sigmoid rising in accuracy
AccuracyWeightRising(correct, wrong) ==
    LET totalAttempts == correct + wrong
        accuracy == IF totalAttempts > 0
                    THEN (correct * Scale) \div totalAttempts
                    ELSE Half
    IN  Mul(AccuracyScale, sigmoid(accuracy - Half, SigmoidSteepness, 0))

\* Factor 1: accuracy, through the sigmoid
AccuracyWeightOf(correct, wrong) ==
    LET totalAttempts == correct + wrong
        accuracy == IF totalAttempts > 0
                    THEN (correct * Scale) \div totalAttempts
                    ELSE Half
    IN  Mul(AccuracyScale, sigmoid(Half - accuracy, SigmoidSteepness, 0))

\* AccuracyWeightOf, computed once for every pair of counts a record can hold
AccuracyTable ==
    [correct \in 0 .. MaxAttempts, wrong \in 0 .. MaxAttempts |->
        AccuracyWeightOf(correct, wrong)]

AccuracyWeight(rec) == AccuracyTable[rec.correct, rec.wrong]

\* what one miss of the given age adds to the recency boost
MissContribution(ageMs) ==
    IF ageMs < FullBoostSec * MsPerSec THEN MissBoost
    ELSE IF ageMs < DecaySec * MsPerSec
         THEN (MissBoost * (DecaySpanSec * MsPerSec - (ageMs - FullBoostSec * MsPerSec)))
                  \div (DecaySpanSec * MsPerSec)
         ELSE 0

\* Factor 2: recentMisses.reduce(...)
RECURSIVE RecentMissWeight(_, _)
RecentMissWeight(misses, t) ==
    IF misses = <<>> THEN 0
    ELSE MissContribution(t - Head(misses)) + RecentMissWeight(Tail(misses), t)

\* Factor 3: consecutive wrong answers
StreakPenaltyOf(consecutiveWrong) ==
    IF consecutiveWrong > 0
    THEN Scale + Mul(StreakStep, Sqrt(consecutiveWrong))
    ELSE Scale

\* StreakPenaltyOf, computed once for every streak a record can hold
StreakTable == [consecutiveWrong \in 0 .. MaxAttempts |-> StreakPenaltyOf(consecutiveWrong)]

StreakPenalty(rec) == StreakTable[rec.consecutiveWrong]

\* the cooldown without the cap of 5 steps
MasteryCooldownUncapped(rec) ==
    IF rec.consecutiveCorrect >= MasteryStreak
    THEN Max(MasteryFloor, Scale - MasteryStep * (rec.consecutiveCorrect - 2))
    ELSE Scale

\* Factor 4: mastery cooldown
MasteryCooldown(rec) ==
    IF rec.consecutiveCorrect >= MasteryStreak
    THEN Max(MasteryFloor,
             Scale - MasteryStep * Min(rec.consecutiveCorrect - 2, MasteryCap))
    ELSE Scale

\* Factor 5: suppression of a character shown in the last 5 seconds
FreshnessBoost(rec, t) ==
    IF t - rec.lastSeen < FreshSec * MsPerSec THEN FreshFactor ELSE Scale

\* Factor 6: exploration jitter; u is the draw of random.real(0, 1)
ExplorationFactor(poolLen, u) ==
    IF poolLen > LargePool
    THEN FocusedBase + Mul(FocusedSpan, u)
    ELSE ExploreBase + Mul(ExploreSpan, u)

\* the product of the six factors
FinalWeight(rec, poolLen, t, u) ==
    Mul(Mul(Mul(Mul(Mul(AccuracyWeight(rec),
                        Scale + RecentMissWeight(rec.recentMisses, t)),
                    StreakPenalty(rec)),
                MasteryCooldown(rec)),
            FreshnessBoost(rec, t)),
        ExplorationFactor(poolLen, u))

\* the clamp with its ceiling left out
ClampFloorOnly(w) == Max(MinWeight, w)

\* Math.max(0.1, Math.min(5.0, finalWeight))
Clamp(w) == Max(MinWeight, Min(MaxWeight, w))

\* calculateWeight with the prior of an unseen character lowered
calculateWeightLowPrior(m, char, poolLen, t, u) ==
    IF ~MapHas(m, char) THEN Half
    ELSE Clamp(FinalWeight(m[char], poolLen, t, u))

\* calculateWeight(char, allChars) on Map m at time t with jitter draw u
calculateWeight(m, char, poolLen, t, u) ==
    IF ~MapHas(m, char) THEN UnseenWeight
    ELSE Clamp(FinalWeight(m[char], poolLen, t, u))

----------------------------------------------------------------------------
(* selectWeightedCharacter *)

\* The values random.real(0, 1) is taken to draw from: [0, 1), in fixed point
DrawValues == <<0, Scale \div 2, Scale - 1>>

UnitDraws == {DrawValues[i] : i \in 1 .. Len(DrawValues)}

\* A run of the random engine: its k-th draw (k = 0, 1, ...)
DrawStreams == [seed : 0 .. Len(DrawValues) - 1, stride : 0 .. Len(DrawValues) - 1]

Draw(d, k) == DrawValues[((d.seed + k * d.stride) % Len(DrawValues)) + 1]

\* random.real(0, max): the unit draw u stretched to [0, max)
RandomReal(u, max) == (max \div Scale) * u + ((max % Scale) * u) \div Scale

\* random.integer(0, n - 1), as a 1-based position
RandomIndex(u, n) == ((u * n) \div Scale) + 1

\* an absent or empty-string excludeChar is falsy
Truthy(excludeChar) == excludeChar # <<>> /\ excludeChar[1] # ""

\* excludeChar ? chars.filter(c => c !== excludeChar) : chars
AvailableChars(chars, excludeChar) ==
    IF Truthy(excludeChar)
    THEN SelectSeq(chars, LAMBDA c : c # excludeChar[1])
    ELSE chars

\* availableChars.map(char => calculateWeight(char, chars)), the i-th with draw i - 1
RECURSIVE WeightsFrom(_, _, _, _, _, _)
WeightsFrom(m, available, poolLen, t, d, i) ==
    IF i > Len(available) THEN <<>>
    ELSE <<calculateWeight(m, available[i], poolLen, t, Draw(d, i - 1))>>
             \o WeightsFrom(m, available, poolLen, t, d, i + 1)

Weights(m, available, poolLen, t, d) == WeightsFrom(m, available, poolLen, t, d, 1)

RECURSIVE SumWeights(_, _)
SumWeights(weights, i) ==
    IF i > Len(weights) THEN 0 ELSE weights[i] + SumWeights(weights, i + 1)

\* the for loop comparing randomValue with each weight, subtracting nothing
RECURSIVE WalkNoSubtract(_, _, _)
WalkNoSubtract(weights, i, randomValue) ==
    IF i > Len(weights) THEN 0
    ELSE IF randomValue - weights[i] <= 0 THEN i
         ELSE WalkNoSubtract(weights, i + 1, randomValue)

\* the for loop stopping only when randomValue drops below 0
RECURSIVE WalkStrict(_, _, _)
WalkStrict(weights, i, randomValue) ==
    IF i > Len(weights) THEN 0
    ELSE IF randomValue - weights[i] < 0 THEN i
         ELSE WalkStrict(weights, i + 1, randomValue - weights[i])

\* the for loop: the position at which randomValue drops to <= 0, or 0 if none
RECURSIVE Walk(_, _, _)
Walk(weights, i, randomValue) ==
    IF i > Len(weights) THEN 0
    ELSE IF randomValue - weights[i] <= 0 THEN i
         ELSE Walk(weights, i + 1, randomValue - weights[i])

\* the weights with calculateWeight given the candidates in place of the pool
SelectionWeightsByCandidates(m, chars, excludeChar, t, d) ==
    Weights(m, AvailableChars(chars, excludeChar),
            Len(AvailableChars(chars, excludeChar)), t, d)

\* weights = availableChars.map(char => calculateWeight(char, chars))
SelectionWeights(m, chars, excludeChar, t, d) ==
    Weights(m, AvailableChars(chars, excludeChar), Len(chars), t, d)

\* the selection returning the candidate after the one the walk stopped at,
\* which past the last candidate reads beyond the array
selectWeightedCharacterOffByOne(m, chars, excludeChar, t, d) ==
    LET availableChars == AvailableChars(chars, excludeChar)
        n == Len(availableChars)
    IN  IF n = 0 THEN chars[1]
        ELSE IF n = 1 THEN availableChars[1]
        ELSE LET weights == SelectionWeights(m, chars, excludeChar, t, d)
                 totalWeight == SumWeights(weights, 1)
                 hit == Walk(weights, 1, RandomReal(Draw(d, n), totalWeight))
             IN  IF hit > 0
                 THEN IF hit < n THEN availableChars[hit + 1] ELSE "undefined"
                 ELSE availableChars[RandomIndex(Draw(d, n + 1), n)]

\* the selection without line 132: with no candidate it reads availableChars[0]
selectWeightedCharacterNoFallback(m, chars, excludeChar, t, d) ==
    LET availableChars == AvailableChars(chars, excludeChar)
        n == Len(availableChars)
    IN  IF n = 0 THEN "undefined"
        ELSE IF n = 1 THEN availableChars[1]
        ELSE LET weights == SelectionWeights(m, chars, excludeChar, t, d)
                 totalWeight == SumWeights(weights, 1)
                 hit == Walk(weights, 1, RandomReal(Draw(d, n), totalWeight))
             IN  IF hit > 0 THEN availableChars[hit]
                 ELSE availableChars[RandomIndex(Draw(d, n + 1), n)]

\* selectWeightedCharacter(chars, excludeChar) on Map m at time t with draws d
selectWeightedCharacter(m, chars, excludeChar, t, d) ==
    LET availableChars == AvailableChars(chars, excludeChar)
        n == Len(availableChars)
    IN  IF n = 0 THEN chars[1]
        ELSE IF n = 1 THEN availableChars[1]
        ELSE LET weights == SelectionWeights(m, chars, excludeChar, t, d)
                 totalWeight == SumWeights(weights, 1)
                 hit == Walk(weights, 1, RandomReal(Draw(d, n), totalWeight))
             IN  IF hit > 0 THEN availableChars[hit]
                 ELSE availableChars[RandomIndex(Draw(d, n + 1), n)]

\* the weights a call computes: none when it returns at one of the two early exits
WeightsComputed(m, chars, excludeChar, t, d) ==
    IF Len(AvailableChars(chars, excludeChar)) <= 1 THEN <<>>
    ELSE SelectionWeights(m, chars, excludeChar, t, d)

\* the draws of a call that lacks the early exit for a single candidate
DrawsMadeNoShortcut(chars, excludeChar, d) ==
    IF Len(AvailableChars(chars, excludeChar)) = 0 THEN <<>> ELSE <<d>>

\* the run of the random engine a call draws from: none when it returns at
\* one of the two early exits
DrawsMade(chars, excludeChar, d) ==
    IF Len(AvailableChars(chars, excludeChar)) <= 1 THEN <<>> ELSE <<d>>

----------------------------------------------------------------------------
(* The state machine *)

Selectors == 1 .. MaxSelectors

NoCall == [op |-> "none", sel |-> 0, char |-> "", isCorrect |-> FALSE,
           chars |-> <<>>, excludeChar |-> <<>>, weights |-> <<>>, draws |-> <<>>]

\* Date.now() moves on by one of these between two operations
TickSteps == {FreshSec * MsPerSec, MissWindowMs \div 2, MissWindowMs}

\* pools of more than LargePool characters are represented by this one
LargeChars == [i \in 1 .. LargePool + 1 |->
                  IF i % 3 = 0 THEN "" ELSE IF i % 3 = 1 THEN "a" ELSE "b"]

RECURSIVE SeqsUpTo(_, _)
SeqsUpTo(S, n) ==
    IF n = 0 THEN {<<>>}
    ELSE LET shorter == SeqsUpTo(S, n - 1)
         IN  shorter \cup {Append(q, x) : q \in shorter, x \in S}

\* the chars arguments of selectWeightedCharacter: non-empty
Pools == (SeqsUpTo(Items, MaxPool) \ {<<>>}) \cup {LargeChars}

\* the excludeChar arguments: absent, or any character
Excludes == {<<>>} \cup {<<c>> : c \in Items}

Attempts(m, char) == IF MapHas(m, char) THEN m[char].correct + m[char].wrong ELSE 0

\* one Map at module level, shared by every instance
WithSharedMap(heap, s, m) == [t \in DOMAIN heap |-> m]

\* the instance's own Map is replaced; every other instance keeps its own
WithMap(heap, s, m) == [heap EXCEPT ![s] = m]

\* const characterWeights = new Map(), in the instance being created
createAdaptiveSelector ==
    /\ budget > 0
    /\ created < MaxSelectors
    /\ created' = created + 1
    /\ characterWeights' = WithMap(characterWeights, created + 1, EmptyMap)
    /\ call' = [NoCall EXCEPT !.op = "createAdaptiveSelector", !.sel = created + 1]
    /\ returned' = <<created + 1>>
    /\ budget' = budget - 1
    /\ UNCHANGED <<globalSelector, now, lastWrongAt>>

updateCharacterWeight(s, char, isCorrect) ==
    /\ budget > 0
    /\ s \in 1 .. created
    /\ Attempts(characterWeights[s], char) < MaxAttempts
    /\ characterWeights' =
           WithMap(characterWeights, s, AnswerMap(characterWeights[s], char, isCorrect, now))
    /\ lastWrongAt' = IF isCorrect THEN lastWrongAt
                      ELSE [lastWrongAt EXCEPT ![s][char] = now]
    /\ call' = [NoCall EXCEPT !.op = "updateCharacterWeight", !.sel = s,
                              !.char = char, !.isCorrect = isCorrect]
    /\ returned' = <<>>
    /\ budget' = budget - 1
    /\ UNCHANGED <<created, globalSelector, now>>

markCharacterSeen(s, char) ==
    /\ budget > 0
    /\ s \in 1 .. created
    /\ characterWeights' =
           WithMap(characterWeights, s, SeenMap(characterWeights[s], char, now))
    /\ call' = [NoCall EXCEPT !.op = "markCharacterSeen", !.sel = s, !.char = char]
    /\ returned' = <<>>
    /\ budget' = budget - 1
    /\ UNCHANGED <<created, globalSelector, now, lastWrongAt>>

reset(s) ==
    /\ budget > 0
    /\ s \in 1 .. created
    /\ characterWeights' = WithMap(characterWeights, s, ClearedMap(characterWeights[s]))
    /\ call' = [NoCall EXCEPT !.op = "reset", !.sel = s]
    /\ returned' = <<>>
    /\ budget' = budget - 1
    /\ UNCHANGED <<created, globalSelector, now, lastWrongAt>>

getCharacterWeight(s, char) ==
    /\ budget > 0
    /\ s \in 1 .. created
    /\ call' = [NoCall EXCEPT !.op = "getCharacterWeight", !.sel = s, !.char = char]
    /\ returned' = MapGet(characterWeights[s], char)
    /\ budget' = budget - 1
    /\ UNCHANGED <<characterWeights, created, globalSelector, now, lastWrongAt>>

\* the selection also marking the character it returns as seen
selectWeightedMarksSeen(s, chars, excludeChar, d) ==
    /\ budget > 0
    /\ s \in 1 .. created
    /\ call' = [NoCall EXCEPT !.op = "selectWeightedCharacter", !.sel = s,
                              !.chars = chars, !.excludeChar = excludeChar,
                              !.weights = WeightsComputed(characterWeights[s], chars,
                                                          excludeChar, now, d),
                              !.draws = DrawsMade(chars, excludeChar, d)]
    /\ returned' = <<selectWeightedCharacter(characterWeights[s], chars, excludeChar, now, d)>>
    /\ characterWeights' =
           WithMap(characterWeights, s, SeenMap(characterWeights[s], returned'[1], now))
    /\ budget' = 0
    /\ UNCHANGED <<created, globalSelector, now, lastWrongAt>>

\* the selection is what a round of operations leads up to: it ends the run
selectWeighted(s, chars, excludeChar, d) ==
    /\ budget > 0
    /\ s \in 1 .. created
    /\ call' = [NoCall EXCEPT !.op = "selectWeightedCharacter", !.sel = s,
                              !.chars = chars, !.excludeChar = excludeChar,
                              !.weights = WeightsComputed(characterWeights[s], chars,
                                                          excludeChar, now, d),
                              !.draws = DrawsMade(chars, excludeChar, d)]
    /\ returned' = <<selectWeightedCharacter(characterWeights[s], chars, excludeChar, now, d)>>
    /\ budget' = 0
    /\ UNCHANGED <<characterWeights, created, globalSelector, now, lastWrongAt>>

\* the accessor without the test of line 260: every call constructs an instance
getGlobalAdaptiveSelectorAlwaysNew ==
    /\ budget > 0
    /\ created < MaxSelectors
    /\ created' = created + 1
    /\ characterWeights' = WithMap(characterWeights, created + 1, EmptyMap)
    /\ globalSelector' = created + 1
    /\ call' = [NoCall EXCEPT !.op = "getGlobalAdaptiveSelector", !.sel = globalSelector']
    /\ returned' = <<globalSelector'>>
    /\ budget' = budget - 1
    /\ UNCHANGED <<now, lastWrongAt>>

\* creates the process-wide instance on the first call, returns it on every call
getGlobalAdaptiveSelector ==
    /\ budget > 0
    /\ IF globalSelector = 0
       THEN /\ created < MaxSelectors
            /\ created' = created + 1
            /\ characterWeights' = WithMap(characterWeights, created + 1, EmptyMap)
            /\ globalSelector' = created + 1
       ELSE UNCHANGED <<created, characterWeights, globalSelector>>
    /\ call' = [NoCall EXCEPT !.op = "getGlobalAdaptiveSelector", !.sel = globalSelector']
    /\ returned' = <<globalSelector'>>
    /\ budget' = budget - 1
    /\ UNCHANGED <<now, lastWrongAt>>

resetGlobalAdaptiveSelector ==
    /\ budget > 0
    /\ IF globalSelector # 0
       THEN characterWeights' =
                WithMap(characterWeights, globalSelector,
                        ClearedMap(characterWeights[globalSelector]))
       ELSE UNCHANGED characterWeights
    /\ call' = [NoCall EXCEPT !.op = "resetGlobalAdaptiveSelector", !.sel = globalSelector]
    /\ returned' = <<>>
    /\ budget' = budget - 1
    /\ UNCHANGED <<created, globalSelector, now, lastWrongAt>>

\* time passes between two operations
Tick(d) ==
    /\ budget > 0
    /\ now' = now + d
    /\ budget' = budget - 1
    /\ UNCHANGED <<characterWeights, created, globalSelector, call, returned, lastWrongAt>>

\* a run goes on while it has operations left
Running == budget > 0

NoWrongYet == [s \in Selectors |-> [c \in Items |-> -1]]

\* one instance has been constructed; the process-wide one has not been asked for
Init ==
    /\ characterWeights = [s \in Selectors |-> EmptyMap]
    /\ created = 1
    /\ globalSelector = 0
    /\ now = 0
    /\ call = NoCall
    /\ returned = <<>>
    /\ lastWrongAt = NoWrongYet
    /\ budget = MaxOps

Next ==
    \/ Running /\ \E s \in 1 .. created, char \in Items, isCorrect \in BOOLEAN :
           updateCharacterWeight(s, char, isCorrect)
    \/ Running /\ \E s \in 1 .. created, char \in Items : markCharacterSeen(s, char)
    \/ Running /\ \E s \in 1 .. created : reset(s)
    \/ Running /\ \E s \in 1 .. created, char \in Items : getCharacterWeight(s, char)
    \/ Running /\ \E d \in TickSteps : Tick(d)

Spec == Init /\ [][Next]_vars

(* Selection: the same instance, with selectWeightedCharacter among the operations *)

InitSelect ==
    /\ characterWeights = [s \in Selectors |-> EmptyMap]
    /\ created = 1
    /\ globalSelector = 0
    /\ now = 0
    /\ call = NoCall
    /\ returned = <<>>
    /\ lastWrongAt = NoWrongYet
    /\ budget = MaxSelectOps

NextSelect ==
    \/ Running /\ \E s \in 1 .. created, char \in Items, isCorrect \in BOOLEAN :
           updateCharacterWeight(s, char, isCorrect)
    \/ Running /\ \E s \in 1 .. created, char \in Items : markCharacterSeen(s, char)
    \/ Running /\ \E s \in 1 .. created : reset(s)
    \/ Running /\ \E s \in 1 .. created, char \in Items : getCharacterWeight(s, char)
    \/ Running /\ \E d \in TickSteps : Tick(d)
    \/ Running /\ \E s \in 1 .. created, chars \in Pools, excludeChar \in Excludes, d \in DrawStreams :
           selectWeighted(s, chars, excludeChar, d)

SpecSelect == InitSelect /\ [][NextSelect]_vars

(* Several instances: nothing constructed yet, instances made on demand *)

InitIso ==
    /\ characterWeights = [s \in Selectors |-> EmptyMap]
    /\ created = 0
    /\ globalSelector = 0
    /\ now = 0
    /\ call = NoCall
    /\ returned = <<>>
    /\ lastWrongAt = NoWrongYet
    /\ budget = MaxIsoOps

NextIso ==
    \/ createAdaptiveSelector
    \/ getGlobalAdaptiveSelector
    \/ resetGlobalAdaptiveSelector
    \/ Running /\ \E s \in 1 .. created, char \in Items, isCorrect \in BOOLEAN :
           updateCharacterWeight(s, char, isCorrect)
    \/ Running /\ \E s \in 1 .. created, char \in Items : markCharacterSeen(s, char)
    \/ Running /\ \E s \in 1 .. created : reset(s)
    \/ Running /\ \E s \in 1 .. created, char \in Items : getCharacterWeight(s, char)
    \/ Running /\ \E d \in TickSteps : Tick(d)

SpecIso == InitIso /\ [][NextIso]_vars

(* Streaks: one character of one instance is answered again and again *)

InitStreak ==
    /\ characterWeights = [s \in Selectors |-> EmptyMap]
    /\ created = 1
    /\ globalSelector = 0
    /\ now = 0
    /\ call = NoCall
    /\ returned = <<>>
    /\ lastWrongAt = NoWrongYet
    /\ budget = MaxAttempts

NextStreak ==
    Running /\ \E isCorrect \in BOOLEAN : updateCharacterWeight(1, "a", isCorrect)

SpecStreak == InitStreak /\ [][NextStreak]_vars

----------------------------------------------------------------------------
(* Claims *)

\* the pool sizes weights are computed for: a single character, the largest
\* small pool and the smallest large pool
PoolLens == {1, LargePool, LargePool + 1}

Tracked(s) == DOMAIN characterWeights[s]

\* calculateWeight without its final clamp, for a tracked character
RawWeight(s, char, poolLen, u) == FinalWeight(characterWeights[s][char], poolLen, now, u)

\* C1: for every instance, character, pool size and jitter draw, the weight
\* computed at the current time lies in [0.1, 5.0]
C1_WeightBounds ==
    \A s \in 1 .. created, char \in Items, poolLen \in PoolLens, u \in UnitDraws :
        LET w == calculateWeight(characterWeights[s], char, poolLen, now, u)
        IN  MinWeight <= w /\ w <= MaxWeight

\* C1 witness: some record's product of factors is above 5.0 for one draw and
\* another record's product is below 0.1, so both clamps act
C1_Witness ==
    \E s \in 1 .. created :
        /\ \E char \in Tracked(s), u \in UnitDraws :
               RawWeight(s, char, 1, u) > MaxWeight
        /\ \E char \in Tracked(s), u \in UnitDraws :
               RawWeight(s, char, 1, u) < MinWeight

\* C9 as stated: the weight is exactly 1.0 if and only if the character has no record
C9_NeutralIffUnseen ==
    \A s \in 1 .. created, char \in Items, poolLen \in PoolLens, u \in UnitDraws :
        (calculateWeight(characterWeights[s], char, poolLen, now, u) = UnseenWeight)
            <=> (char \notin Tracked(s))

\* C9 amended: a character without a record has weight exactly 1.0, whatever
\* the records of the other characters, the pool size, the time and the draw
C9_UnseenIsNeutral ==
    \A s \in 1 .. created, poolLen \in PoolLens, u \in UnitDraws :
        \A char \in Items \ Tracked(s) :
            calculateWeight(characterWeights[s], char, poolLen, now, u) = UnseenWeight

\* C9 witness: an instance tracks one character with a weight other than 1.0
\* next to a character it has no record of
C9_Witness ==
    \E s \in 1 .. created :
        /\ Tracked(s) # {} /\ Tracked(s) # Items
        /\ \E char \in Tracked(s) :
               calculateWeight(characterWeights[s], char, 1, now, 0) # UnseenWeight

\* the characters of a pool
Range(seq) == {seq[i] : i \in 1 .. Len(seq)}

\* C2 as stated: when the pool holds x and a character other than x,
\* selectWeightedCharacter(pool, x) does not return x
C2_NeverReturnsExcluded ==
    (/\ call.op = "selectWeightedCharacter"
     /\ call.excludeChar # <<>>
     /\ call.excludeChar[1] \in Range(call.chars)
     /\ Range(call.chars) # {call.excludeChar[1]})
        => returned[1] # call.excludeChar[1]

\* C3: no record has both consecutiveCorrect and consecutiveWrong nonzero
C3_OneStreakAtATime ==
    \A s \in 1 .. created : \A char \in Tracked(s) :
        \/ characterWeights[s][char].consecutiveCorrect = 0
        \/ characterWeights[s][char].consecutiveWrong = 0

\* C3 witness: a wrong answer has just ended a run of correct answers
C3_Witness ==
    /\ call.op = "updateCharacterWeight" /\ ~call.isCorrect
    /\ MapHas(characterWeights[call.sel], call.char)
    /\ characterWeights[call.sel][call.char].correct >= 2
    /\ characterWeights[call.sel][call.char].consecutiveWrong = 1

\* what C4 says updateCharacterWeight(char, isCorrect) at time t makes of a record
C4_Expected(before, after, isCorrect, t) ==
    /\ after.correct = before.correct + (IF isCorrect THEN 1 ELSE 0)
    /\ after.wrong = before.wrong + (IF isCorrect THEN 0 ELSE 1)
    /\ after.consecutiveCorrect = (IF isCorrect THEN before.consecutiveCorrect + 1 ELSE 0)
    /\ after.consecutiveWrong = (IF isCorrect THEN 0 ELSE before.consecutiveWrong + 1)
    /\ after.lastSeen = t

\* C4: updateCharacterWeight adds 1 to the counter of the outcome and to its
\* streak, zeroes the other streak, leaves the other counter and sets lastSeen
\* to now; without a record the result is that update of an all-zero record,
\* with the miss list <<now>> after a wrong answer and empty after a correct one
C4_RecordAnswerEffect ==
    [][\A s \in Selectors, char \in Items, isCorrect \in BOOLEAN :
          updateCharacterWeight(s, char, isCorrect) =>
              /\ MapHas(characterWeights'[s], char)
              /\ IF MapHas(characterWeights[s], char)
                 THEN C4_Expected(characterWeights[s][char], characterWeights'[s][char],
                                  isCorrect, now)
                 ELSE /\ C4_Expected([correct |-> 0, wrong |-> 0,
                                      consecutiveCorrect |-> 0, consecutiveWrong |-> 0],
                                     characterWeights'[s][char], isCorrect, now)
                      /\ characterWeights'[s][char].recentMisses =
                             (IF isCorrect THEN <<>> ELSE <<now>>)]_vars

\* C4 witness: a wrong answer was recorded on a record that had a correct streak
\* and was last seen earlier
C4_Witness ==
    /\ call.op = "updateCharacterWeight" /\ ~call.isCorrect
    /\ MapHas(characterWeights[call.sel], call.char)
    /\ characterWeights[call.sel][call.char].correct >= 1
    /\ characterWeights[call.sel][call.char].lastSeen = now
    /\ now > 0

\* C5: every timestamp of recentMisses lies in the 120 seconds that end at the
\* character's last wrong answer
C5_MissesWithinWindow ==
    \A s \in 1 .. created : \A char \in Tracked(s) :
        LET misses == characterWeights[s][char].recentMisses
        IN  \A i \in 1 .. Len(misses) :
                /\ misses[i] <= lastWrongAt[s][char]
                /\ lastWrongAt[s][char] - misses[i] < MissWindowMs

\* C5 witness: a second wrong answer, more than 120 seconds into the run, has
\* left only its own timestamp: the first miss is gone
C5_Witness ==
    /\ call.op = "updateCharacterWeight" /\ ~call.isCorrect
    /\ MapHas(characterWeights[call.sel], call.char)
    /\ characterWeights[call.sel][call.char].wrong = 2
    /\ characterWeights[call.sel][call.char].recentMisses = <<now>>
    /\ now > MissWindowMs

\* whether an entry of the given age is within the window, the window taking in
\* the age of exactly 120 seconds or not
InWindow(age, inclusive) ==
    IF inclusive THEN age <= MissWindowMs ELSE age < MissWindowMs

\* the effect of the operations on recentMisses of an existing record, an entry
\* being kept by a wrong answer when its age is in the window
MissListEffect(inclusive) ==
    /\ \A s \in Selectors, char \in Items :
          (updateCharacterWeight(s, char, FALSE) /\ MapHas(characterWeights[s], char)) =>
              characterWeights'[s][char].recentMisses =
                  Append(SelectSeq(characterWeights[s][char].recentMisses,
                                   LAMBDA m : InWindow(now - m, inclusive)),
                         now)
    /\ \A s \in Selectors, char \in Items :
          ((updateCharacterWeight(s, char, TRUE) \/ markCharacterSeen(s, char))
              /\ MapHas(characterWeights[s], char)) =>
              characterWeights'[s][char].recentMisses =
                  characterWeights[s][char].recentMisses

\* C6 as stated: a wrong answer on an existing record keeps, in order, the
\* entries whose age is at most 120 seconds and appends now; a correct answer
\* and markCharacterSeen leave the list as it is
C6_PruneOlderThanWindow == [][MissListEffect(TRUE)]_vars

\* C6 amended: a wrong answer on an existing record keeps, in order, the
\* entries whose age is less than 120 seconds (an entry exactly 120 seconds old
\* is removed) and appends now; a correct answer and markCharacterSeen leave
\* the list as it is
C6_PruneFromWindow == [][MissListEffect(FALSE)]_vars

\* C6 witness: the second wrong answer came exactly 120 seconds after the
\* first, and the first miss is gone
C6_Witness ==
    /\ call.op = "updateCharacterWeight" /\ ~call.isCorrect
    /\ MapHas(characterWeights[call.sel], call.char)
    /\ characterWeights[call.sel][call.char].wrong = 2
    /\ characterWeights[call.sel][call.char].recentMisses = <<now>>
    /\ now = MissWindowMs

\* C7: after reset() the instance has no record of any character, as when it
\* was constructed
C7_ResetClearsAll ==
    call.op = "reset" =>
        /\ characterWeights[call.sel] = EmptyMap
        /\ \A char \in Items : MapGet(characterWeights[call.sel], char) = <<>>

\* C7 witness: reset() ran on an instance on which two distinct characters had
\* been answered
C7_Witness ==
    /\ call.op = "reset"
    /\ \E c1, c2 \in Items :
           /\ c1 # c2
           /\ lastWrongAt[call.sel][c1] >= 0
           /\ lastWrongAt[call.sel][c2] >= 0

\* C8: a step that runs an operation on one instance leaves the Map of every
\* other instance as it was
C8_InstancesIsolated ==
    [][\A s \in Selectors :
          ((\E char \in Items, isCorrect \in BOOLEAN : updateCharacterWeight(s, char, isCorrect))
             \/ (\E char \in Items : markCharacterSeen(s, char))
             \/ reset(s))
          => \A t \in Selectors \ {s} : characterWeights'[t] = characterWeights[t]]_vars

\* C8 witness: two instances hold different records of the same character
C8_Witness ==
    /\ created >= 2
    /\ \E char \in Items :
           /\ MapHas(characterWeights[1], char) /\ MapHas(characterWeights[2], char)
           /\ characterWeights[1][char] # characterWeights[2][char]

\* correct + wrong of every character of every instance does not go down in this step
AttemptsDoNotDrop ==
    \A s \in Selectors, char \in Items :
        Attempts(characterWeights'[s], char) >= Attempts(characterWeights[s], char)

\* C10 as stated: correct + wrong of a character never decreases from one
\* state to the next
C10_AttemptsNeverDecrease == [][AttemptsDoNotDrop]_vars

\* C10 amended: correct + wrong of a character never decreases in a step other
\* than reset() or resetGlobalAdaptiveSelector(), which remove the record
C10_AttemptsDecreaseOnlyByReset ==
    [][(\E s \in Selectors : reset(s)) \/ resetGlobalAdaptiveSelector \/ AttemptsDoNotDrop]_vars

\* C10 witness: an answer was recorded on a record that already counted two attempts
C10_Witness ==
    /\ call.op = "updateCharacterWeight"
    /\ MapHas(characterWeights[call.sel], call.char)
    /\ Attempts(characterWeights[call.sel], call.char) >= 3

\* C11: markCharacterSeen leaves correct, wrong, consecutiveCorrect,
\* consecutiveWrong and recentMisses of an existing record as they were and
\* sets only lastSeen to now; for a character without a record it makes one
\* with the four counters 0, no misses and lastSeen = now; no other record of
\* the instance changes
C11_MarkSeenEffect ==
    [][\A s \in Selectors, char \in Items :
          markCharacterSeen(s, char) =>
              LET before == characterWeights[s]
                  after == characterWeights'[s]
              IN  /\ MapHas(after, char)
                  /\ after[char].lastSeen = now
                  /\ IF MapHas(before, char)
                     THEN /\ after[char].correct = before[char].correct
                          /\ after[char].wrong = before[char].wrong
                          /\ after[char].consecutiveCorrect = before[char].consecutiveCorrect
                          /\ after[char].consecutiveWrong = before[char].consecutiveWrong
                          /\ after[char].recentMisses = before[char].recentMisses
                     ELSE /\ after[char].correct = 0
                          /\ after[char].wrong = 0
                          /\ after[char].consecutiveCorrect = 0
                          /\ after[char].consecutiveWrong = 0
                          /\ after[char].recentMisses = <<>>
                  /\ \A other \in Items \ {char} :
                         MapGet(after, other) = MapGet(before, other)]_vars

\* C11 witness: markCharacterSeen has run, later than the last answer, on a
\* record that counts answers and holds a miss
C11_Witness ==
    /\ call.op = "markCharacterSeen"
    /\ MapHas(characterWeights[call.sel], call.char)
    /\ LET rec == characterWeights[call.sel][call.char]
       IN  /\ rec.correct + rec.wrong >= 2
           /\ rec.recentMisses # <<>>
           /\ rec.lastSeen = now
           /\ rec.lastSeen > rec.recentMisses[Len(rec.recentMisses)]

\* a record of char is made in this step
RecordAppears(s, char) ==
    ~MapHas(characterWeights[s], char) /\ MapHas(characterWeights'[s], char)

\* a record of char is removed in this step
RecordDisappears(s, char) ==
    MapHas(characterWeights[s], char) /\ ~MapHas(characterWeights'[s], char)

\* this step is markCharacterSeen or updateCharacterWeight on char
FirstTouch(s, char) ==
    markCharacterSeen(s, char) \/ \E isCorrect \in BOOLEAN : updateCharacterWeight(s, char, isCorrect)

\* C12: a new selector has no records; a record of a character appears in a
\* step exactly when the step is markCharacterSeen or updateCharacterWeight on
\* that character and it had none; a record disappears only in a reset() step,
\* which leaves no record at all; so every other step (updateCharacterWeight,
\* markCharacterSeen, selectWeightedCharacter, getCharacterWeight on any
\* character, and the passing of time) keeps every record present
C12_RecordLifecycle ==
    /\ \A s \in Selectors : characterWeights[s] = EmptyMap
    /\ [][\A s \in Selectors :
             /\ \A char \in Items :
                    /\ RecordAppears(s, char) => FirstTouch(s, char)
                    /\ FirstTouch(s, char) => MapHas(characterWeights'[s], char)
                    /\ RecordDisappears(s, char) => reset(s)
             /\ reset(s) => characterWeights'[s] = EmptyMap]_vars

\* C12 witness: a selection has run on an instance that holds a record
C12_Witness ==
    /\ call.op = "selectWeightedCharacter"
    /\ characterWeights[call.sel] # EmptyMap

\* the call in `call` is a selection
Selected == call.op = "selectWeightedCharacter"

\* the candidates of the selection in `call`
Candidates == AvailableChars(call.chars, call.excludeChar)

\* the selection in `call` has returned char at an early exit
ReturnedDirectly(char) ==
    /\ returned = <<char>>
    /\ call.weights = <<>>
    /\ call.draws = <<>>

\* C13: a selection from a pool of exactly one element returns that element,
\* with or without it as excludeChar and whatever its record; a selection
\* with exactly one candidate left after exclusion returns that candidate;
\* in both cases no weight is computed and no random value is drawn
C13_SingleCandidateShortcut ==
    Selected =>
        /\ Len(call.chars) = 1 => ReturnedDirectly(call.chars[1])
        /\ Len(Candidates) = 1 => ReturnedDirectly(Candidates[1])

\* C13 witness: one candidate is left of a pool of two after exclusion, and
\* the instance holds a record of it with a wrong answer
C13_Witness ==
    /\ Selected
    /\ Len(call.chars) = 2
    /\ Len(Candidates) = 1
    /\ MapHas(characterWeights[call.sel], Candidates[1])
    /\ characterWeights[call.sel][Candidates[1]].wrong > 0

\* every element of the pool equals the excluded character
AllExcluded(chars, excludeChar) ==
    /\ excludeChar # <<>>
    /\ \A i \in 1 .. Len(chars) : chars[i] = excludeChar[1]

\* C14: a selection from a non-empty pool whose every element equals
\* excludeChar returns the first element of the pool, a character and not an
\* error, and changes no record
C14_EmptiedPoolReturnsFirst ==
    [][(/\ call'.op = "selectWeightedCharacter"
        /\ AllExcluded(call'.chars, call'.excludeChar)
        /\ \E d \in DrawStreams :
               selectWeighted(call'.sel, call'.chars, call'.excludeChar, d))
          => /\ returned' = <<call'.chars[1]>>
             /\ call'.chars[1] \in Items
             /\ characterWeights' = characterWeights]_vars

\* C14 witness: a selection has run on a pool of two elements that both equal
\* the excluded character, which leaves no candidate, on an instance that
\* holds a record of it
C14_Witness ==
    /\ Selected
    /\ Len(call.chars) = 2
    /\ AllExcluded(call.chars, call.excludeChar)
    /\ Len(Candidates) = 0
    /\ MapHas(characterWeights[call.sel], call.chars[1])

\* C15: the process-wide instance, once created, is never replaced;
\* getGlobalAdaptiveSelector returns it, constructing it (new and empty) only
\* when there is none and otherwise changing nothing, so the records written
\* through it stay visible; resetGlobalAdaptiveSelector empties its Map,
\* constructs nothing, and leaves the Map of every other instance as it was
C15_GlobalCreatedOnce ==
    /\ globalSelector = 0
    /\ [][/\ globalSelector # 0 => globalSelector' = globalSelector
          /\ getGlobalAdaptiveSelector =>
                 /\ globalSelector' # 0
                 /\ returned' = <<globalSelector'>>
                 /\ IF globalSelector = 0
                    THEN /\ globalSelector' \notin 1 .. created
                         /\ characterWeights'[globalSelector'] = EmptyMap
                         /\ \A s \in 1 .. created :
                                characterWeights'[s] = characterWeights[s]
                    ELSE /\ created' = created
                         /\ characterWeights' = characterWeights
          /\ resetGlobalAdaptiveSelector =>
                 /\ created' = created
                 /\ globalSelector' = globalSelector
                 /\ globalSelector # 0 => characterWeights'[globalSelector] = EmptyMap
                 /\ \A s \in Selectors \ {globalSelector} :
                        characterWeights'[s] = characterWeights[s]]_vars

\* C15 witness: a later getGlobalAdaptiveSelector call has returned the
\* process-wide instance with a record written through an earlier call
C15_Witness ==
    /\ call.op = "getGlobalAdaptiveSelector"
    /\ globalSelector # 0
    /\ returned = <<globalSelector>>
    /\ characterWeights[globalSelector] # EmptyMap

\* the record of char counts three wrong answers in a row and nothing else,
\* and the character has not been marked as seen since the last of them
ThreeMisses(s, char) ==
    /\ MapHas(characterWeights[s], char)
    /\ characterWeights[s][char].correct = 0
    /\ characterWeights[s][char].wrong = 3
    /\ characterWeights[s][char].consecutiveWrong = 3
    /\ characterWeights[s][char].lastSeen = lastWrongAt[s][char]

\* C16: a character answered wrong three times in a row, never right and not
\* marked as seen since, weighs more than 1.0, the weight of an unseen character, for every
\* jitter draw, every pool size and at every time the weight is computed
\* afterwards, the 5 seconds after the last answer included
C16_ThreeMissesOutweighUnseen ==
    \A s \in Selectors, char \in Items :
        ThreeMisses(s, char) =>
            \A poolLen \in PoolLens, u \in UnitDraws :
                /\ calculateWeight(characterWeights[s], char, poolLen, now, u) > Scale
                /\ \A other \in Items \ Tracked(s) :
                       calculateWeight(characterWeights[s], char, poolLen, now, u)
                           > calculateWeight(characterWeights[s], other, poolLen, now, u)

\* C16 witness: the third miss has just been recorded, so the character counts
\* as shown in the last 5 seconds, and the two earlier misses have left the
\* miss list
C16_Witness ==
    \E s \in Selectors, char \in Items :
        /\ ThreeMisses(s, char)
        /\ characterWeights[s][char].lastSeen = now
        /\ Len(characterWeights[s][char].recentMisses) = 1
        /\ Tracked(s) # Items

\* x lies within 5% of target
WithinTolerance(x, target) == 95 * target <= 100 * x /\ 100 * x <= 105 * target

\* C17 as stated: the accuracy factor of a record with at least one attempt
\* is within 5% of 2.5 when no answer was right, of 1.5 when half of them
\* were and of 0.3 when all of them were; a record with no attempt has the
\* factor of accuracy 0.5
C17_AccuracyAnchors ==
    \A s \in Selectors, char \in Items :
        MapHas(characterWeights[s], char) =>
            LET rec == characterWeights[s][char]
                attempts == rec.correct + rec.wrong
            IN  /\ attempts > 0 /\ rec.correct = 0 =>
                       WithinTolerance(AccuracyWeight(rec), (25 * Scale) \div 10)
                /\ attempts > 0 /\ 2 * rec.correct = attempts =>
                       WithinTolerance(AccuracyWeight(rec), (15 * Scale) \div 10)
                /\ attempts > 0 /\ rec.wrong = 0 =>
                       WithinTolerance(AccuracyWeight(rec), (3 * Scale) \div 10)
                /\ attempts = 0 => AccuracyWeight(rec) = Mul(AccuracyScale, sigmoid(0, SigmoidSteepness, 0))

\* the mastery cooldown of a record like rec with k right answers in a row
MasteryAt(rec, k) == MasteryCooldown([rec EXCEPT !.consecutiveCorrect = k])

\* C18: the mastery cooldown of a record is 1 below three right answers in a
\* row, at most 1 at three, at each streak from 4 to 7 no more than at the
\* streak before, from 7 on the same as at 7, and never below 0.15
C18_MasteryCooldownShape ==
    \A s \in Selectors, char \in Items :
        MapHas(characterWeights[s], char) =>
            LET rec == characterWeights[s][char]
                streak == rec.consecutiveCorrect
            IN  /\ streak < 3 => MasteryCooldown(rec) = Scale
                /\ streak = 3 => MasteryCooldown(rec) <= Scale
                /\ streak \in 4 .. 7 => MasteryCooldown(rec) <= MasteryAt(rec, streak - 1)
                /\ streak >= 7 => MasteryCooldown(rec) = MasteryAt(rec, 7)
                /\ MasteryCooldown(rec) >= (15 * Scale) \div 100

\* C18 witness: a record with more than seven right answers in a row, whose
\* cooldown is below 1
C18_Witness ==
    \E s \in Selectors, char \in Items :
        /\ MapHas(characterWeights[s], char)
        /\ characterWeights[s][char].consecutiveCorrect > 7
        /\ MasteryCooldown(characterWeights[s][char]) < Scale

\* w1 + ... + wk
RECURSIVE CumulativeWeight(_, _)
CumulativeWeight(weights, k) ==
    IF k = 0 THEN 0 ELSE weights[k] + CumulativeWeight(weights, k - 1)

\* the first position whose cumulative weight reaches r
FirstReaching(weights, r) ==
    CHOOSE k \in 1 .. Len(weights) :
        /\ CumulativeWeight(weights, k) >= r
        /\ \A j \in 1 .. k - 1 : CumulativeWeight(weights, j) < r

\* the value drawn in [0, total) by the selection in `call`
DrawnValue ==
    RandomReal(Draw(call.draws[1], Len(Candidates)),
               CumulativeWeight(call.weights, Len(call.weights)))

\* C19: a selection among two or more candidates computes one weight per
\* candidate, in pool order, from the records, the clock and the draws, draws
\* r in [0, w1 + ... + wn) and returns the first candidate whose cumulative
\* weight is at least r; so candidate k is returned exactly for the r above
\* w1 + ... + w(k-1) and up to w1 + ... + wk, a stretch as long as wk
C19_FirstCumulativeReachingDraw ==
    Selected /\ Len(Candidates) >= 2 =>
        /\ Len(call.weights) = Len(Candidates)
        /\ \A i \in 1 .. Len(Candidates) :
               call.weights[i] =
                   calculateWeight(characterWeights[call.sel], Candidates[i],
                                   Len(call.chars), now, Draw(call.draws[1], i - 1))
        /\ DrawnValue >= 0
        /\ DrawnValue < CumulativeWeight(call.weights, Len(call.weights))
        /\ returned = <<Candidates[FirstReaching(call.weights, DrawnValue)]>>

\* C19 witness: the candidates differ in weight and in name, and the draw
\* passed over the first of them
C19_Witness ==
    /\ Selected
    /\ Len(Candidates) >= 2
    /\ call.weights[1] # call.weights[2]
    /\ Candidates[1] # Candidates[2]
    /\ FirstReaching(call.weights, DrawnValue) > 1
    /\ returned # <<Candidates[1]>>

\* the weight stored for the i-th candidate is the one whose jitter comes
\* from the range that count decides: the low end of the range at draw 0,
\* the high end 1.0 never exceeded
JitterDecidedBy(count, i) ==
    LET m == characterWeights[call.sel]
        char == Candidates[i]
    IN  /\ call.weights[i] = calculateWeight(m, char, count, now, Draw(call.draws[1], i - 1))
        /\ call.weights[i] >= calculateWeight(m, char, count, now, 0)
        /\ call.weights[i] <= calculateWeight(m, char, count, now, Scale)

WalkHit ==
    Walk(call.weights, 1,
         RandomReal(Draw(call.draws[1], Len(Candidates)), SumWeights(call.weights, 1)))

\* C21: a selection on a non-empty pool returns; among two or more
\* candidates every weight is at least 0.1, the draw lies in [0, totalWeight)
\* and the walk stops at one of the candidates, which is returned, so the
\* fallback is not reached; and the index the fallback would draw is the
\* position of a candidate, whatever the draw
C21_WalkAlwaysHits ==
    Selected =>
        /\ Len(returned) = 1
        /\ Len(Candidates) >= 2 =>
               /\ \A i \in 1 .. Len(call.weights) : call.weights[i] >= MinWeight
               /\ DrawnValue < SumWeights(call.weights, 1)
               /\ WalkHit \in 1 .. Len(Candidates)
               /\ returned = <<Candidates[WalkHit]>>
               /\ \A u \in UnitDraws : RandomIndex(u, Len(Candidates)) \in 1 .. Len(Candidates)

\* C21 witness: the walk has gone through every candidate and stopped at the
\* last one, and one of the weights is the floor 0.1
C21_Witness ==
    /\ Selected
    /\ Len(Candidates) >= 2
    /\ WalkHit = Len(Candidates)
    /\ \E i \in 1 .. Len(call.weights) : call.weights[i] = MinWeight

\* C22: whatever the pool and excludeChar, a selection returns exactly one
\* value and it is an element of the pool: chars[0] when exclusion leaves
\* nothing, else one of the candidates, which are elements of the pool; the
\* candidate the fallback would index is one too
C22_ReturnsPoolElement ==
    Selected =>
        /\ Len(returned) = 1
        /\ returned[1] \in Range(call.chars)
        /\ Len(Candidates) = 0 => returned[1] = call.chars[1]
        /\ Len(Candidates) >= 1 => returned[1] \in Range(Candidates)
        /\ Range(Candidates) \subseteq Range(call.chars)
        /\ Len(Candidates) >= 2 =>
               \A u \in UnitDraws :
                   Candidates[RandomIndex(u, Len(Candidates))] \in Range(call.chars)

\* C22 witness: exclusion has removed elements of the pool and left several
\* candidates, some with a record, and the walk has passed the first one
C22_Witness ==
    /\ Selected
    /\ Len(Candidates) >= 2
    /\ Len(Candidates) < Len(call.chars)
    /\ characterWeights[call.sel] # EmptyMap
    /\ WalkHit > 1

\* in this step instance s keeps, for every character but char, the record
\* it had or the absence of one, and every other instance keeps its Map
OnlyRecordOf(s, char) ==
    /\ \A other \in Items \ {char} :
           MapGet(characterWeights'[s], other) = MapGet(characterWeights[s], other)
    /\ \A t \in Selectors \ {s} : characterWeights'[t] = characterWeights[t]

\* C23: selectWeightedCharacter and getCharacterWeight change no record and
\* make none, for the characters of the pool included; updateCharacterWeight
\* and markCharacterSeen on a character leave the record, or the absence of
\* one, of every other character as it was
C23_OnlyOwnRecordChanges ==
    [][/\ (/\ call'.op = "selectWeightedCharacter"
           /\ \E d \in DrawStreams :
                  selectWeighted(call'.sel, call'.chars, call'.excludeChar, d))
             => characterWeights' = characterWeights
       /\ \A s \in Selectors, char \in Items :
              /\ getCharacterWeight(s, char) => characterWeights' = characterWeights
              /\ markCharacterSeen(s, char) => OnlyRecordOf(s, char)
              /\ \A isCorrect \in BOOLEAN :
                     updateCharacterWeight(s, char, isCorrect) => OnlyRecordOf(s, char)]_vars

\* C23 witness: a selection has returned a character without a record from a
\* pool of several, on an instance that holds a record of another character
C23_Witness ==
    /\ Selected
    /\ Len(Candidates) >= 2
    /\ returned[1] \notin Tracked(call.sel)
    /\ Tracked(call.sel) # {}

\* C24: in every record the streak of right answers is at most correct, the
\* streak of wrong answers at most wrong, recentMisses has at most wrong
\* entries, in non-decreasing order, and none of them is later than lastSeen
C24_RecordWellFormed ==
    \A s \in Selectors, char \in Items :
        MapHas(characterWeights[s], char) =>
            LET rec == characterWeights[s][char]
                misses == rec.recentMisses
            IN  /\ rec.consecutiveCorrect <= rec.correct
                /\ rec.consecutiveWrong <= rec.wrong
                /\ Len(misses) <= rec.wrong
                /\ \A i \in 1 .. Len(misses) - 1 : misses[i] <= misses[i + 1]
                /\ \A i \in 1 .. Len(misses) : misses[i] <= rec.lastSeen

\* C24 witness: a record holds two misses of different times and was seen
\* again later than both
C24_Witness ==
    \E s \in Selectors, char \in Items :
        /\ MapHas(characterWeights[s], char)
        /\ Len(characterWeights[s][char].recentMisses) >= 2
        /\ characterWeights[s][char].recentMisses[1] < characterWeights[s][char].recentMisses[2]
        /\ characterWeights[s][char].lastSeen > characterWeights[s][char].recentMisses[2]

====
